---- MODULE Spec2Model ----
(***************************************************************************)
(* Model of rust-server/src/main.rs: a hyper HTTP/1.1 server on :8080 with *)
(* one tokio task per accepted connection and three handlers (/hash,       *)
(* /health, not found).                                                    *)
(*                                                                         *)
(* Text is a sequence of one-character strings, binary data a sequence of  *)
(* bytes 0..255.  The wall clock is the signed number of nanoseconds since *)
(* UNIX_EPOCH; SystemTime is not monotonic and may lie before the epoch.   *)
(* SHA-256 (crate sha2) is represented by Digest, a 32-byte stand-in that  *)
(* depends on every input byte and on the input length.                    *)
(***************************************************************************)
EXTENDS Integers, Sequences, FiniteSets, TLC

(* ------------------------------ bounds -------------------------------- *)
\* connections that clients may open
MaxConns == 2
\* requests sent by all clients together
MaxRequests == 2
\* the wall clock takes the values k half-milliseconds, k in 0..MaxTick,
\* and one value before the epoch
MaxTick == 2

(* ------------------------- program constants -------------------------- *)
\* the bound port
Port == 8080
\* [u8; 32]
DigestLen == 32
\* upper end of the range 1..100 of the re-hash loop
LoopEnd == 100
\* Duration::as_millis
NanosPerMilli == 1000000
\* StatusCode::OK, StatusCode::NOT_FOUND
StatusOk == 200
StatusNotFound == 404

Conns == 1..MaxConns
HalfMilli == NanosPerMilli \div 2
BeforeEpoch == 0 - HalfMilli
ClockValues == {BeforeEpoch} \cup {k * HalfMilli : k \in 0..MaxTick}

(* ------------------------------- text --------------------------------- *)
Digits == <<"0", "1", "2", "3", "4", "5", "6", "7", "8", "9">>
HexDigits == <<"0", "1", "2", "3", "4", "5", "6", "7", "8", "9",
               "a", "b", "c", "d", "e", "f">>

\* Display of an unsigned integer, as format!("{}") and serde_json write it
RECURSIVE Decimal(_)
Decimal(n) ==
    IF n < 10 THEN <<Digits[n + 1]>>
    ELSE Decimal(n \div 10) \o <<Digits[(n % 10) + 1]>>

\* str::as_bytes on the characters that the input string can hold
AsciiOf(ch) ==
    CASE ch = "i" -> 105 [] ch = "n" -> 110 [] ch = "p" -> 112
      [] ch = "u" -> 117 [] ch = "t" -> 116 [] ch = "-" -> 45
      [] ch = "0" -> 48 [] ch = "1" -> 49 [] ch = "2" -> 50 [] ch = "3" -> 51
      [] ch = "4" -> 52 [] ch = "5" -> 53 [] ch = "6" -> 54 [] ch = "7" -> 55
      [] ch = "8" -> 56 [] ch = "9" -> 57
as_bytes(s) == [i \in 1..Len(s) |-> AsciiOf(s[i])]

\* variant: the input string is built from the milliseconds
format_input_millis(timestamp) ==
    <<"i", "n", "p", "u", "t", "-">> \o Decimal(timestamp \div NanosPerMilli)

\* format!("input-{}", timestamp)
format_input(timestamp) == <<"i", "n", "p", "u", "t", "-">> \o Decimal(timestamp)

\* hex::encode: two lowercase hexadecimal digits per byte, high nibble first
hex_encode(data) ==
    [i \in 1..(2 * Len(data)) |->
        LET b == data[(i + 1) \div 2]
        IN IF i % 2 = 1 THEN HexDigits[(b \div 16) + 1] ELSE HexDigits[(b % 16) + 1]]

(* ------------------------------ digest -------------------------------- *)
\* Sha256::digest / finalize: DigestLen bytes.  The stand-in for SHA-256
\* rotates the input and maps each byte one-to-one, so that on DigestLen
\* bytes it is collision-free, and it mixes in the input length
Digest(bytes) ==
    LET n == Len(bytes)
    IN SubSeq([j \in 1..DigestLen |->
                  IF n = 0 THEN (7 * j) % 256
                  ELSE (bytes[((j + 2) % n) + 1] * 5 + n + 7 * j) % 256],
              1, DigestLen)

\* variant: finalize without reset, the hasher keeps what it was fed
finalize_keep(hasher) == [out |-> Digest(hasher), hasher |-> hasher]

\* Sha256::new, update, finalize_reset: the hasher holds the bytes fed to it
\* since it was created or last reset
Sha256New == <<>>
update(hasher, data) == hasher \o data
finalize_reset(hasher) == [out |-> Digest(hasher), hasher |-> Sha256New]

\* the body of the loop: hasher.update(data); data = hasher.finalize_reset()
\* 'digests' counts the digest computations made so far
loop_body(s) ==
    LET fin == finalize_reset(update(s.hasher, s.data))
    IN [hasher |-> fin.hasher, data |-> fin.out, digests |-> s.digests + 1]

\* for _ in lo..hi { body }: the iterations lo, .., hi - 1 in order (the
\* range is run in two halves, first then second, which keeps the depth of
\* evaluation logarithmic)
RECURSIVE for_range(_, _, _)
for_range(lo, hi, s) ==
    IF lo >= hi THEN s
    ELSE IF hi - lo = 1 THEN loop_body(s)
    ELSE LET mid == (lo + hi) \div 2
             first == for_range(lo, mid, s)
         IN IF first.digests > 0 THEN for_range(mid, hi, first) ELSE first

\* lines 58-66 of hash_handler: the digest chain seeded by the nanoseconds
hash_chain(nanos) ==
    LET input == format_input(nanos)
        hasher == Sha256New
        data == Digest(as_bytes(input))
    IN for_range(1, LoopEnd, [hasher |-> hasher, data |-> data, digests |-> 1])

\* the chain of every clock value at or after the epoch, computed once
ChainTable == [t \in {v \in ClockValues : v >= 0} |-> hash_chain(t)]

(* ------------------------------ clock --------------------------------- *)
\* SystemTime::now().duration_since(UNIX_EPOCH): Err before the epoch
duration_since_epoch(now) ==
    IF now >= 0 THEN [ok |-> TRUE, nanos |-> now] ELSE [ok |-> FALSE, nanos |-> 0]
as_nanos(d) == d.nanos
as_millis(d) == d.nanos \div NanosPerMilli

(* ----------------------------- messages ------------------------------ *)
Methods == {"GET", "POST"}
Uris == { [path |-> "/hash", query |-> ""],
          [path |-> "/health", query |-> "probe=1"],
          [path |-> "/healthz", query |-> ""] }
\* a request on the wire; seq is its position among the requests that the
\* client sent on the connection
Request(method, uri, seq) == [method |-> method, uri |-> uri, seq |-> seq]
NoRequest == Request("", [path |-> "", query |-> ""], 0)

\* req.uri().path(): the path component, without the query
uri_path(req) == req.uri.path

\* Response::builder().status(..).header(..).body(Full::new(Bytes::from(..)))
Response(status, headers, body) ==
    [status |-> status, headers |-> headers, body |-> body]
NoResponse == Response(0, {}, <<>>)
\* Result<Response, Infallible>::Ok
Ok(response) == [tag |-> "Ok", val |-> response]
NoResult == [tag |-> "", val |-> NoResponse]

Quote(s) == <<"\"">> \o s \o <<"\"">>
\* serde_json::to_string of the derived Serialize of HashResponse: the three
\* fields in declaration order
to_json(r) ==
    <<"{">> \o Quote(<<"h", "a", "s", "h">>) \o <<":">> \o Quote(r.hash)
    \o <<",">> \o Quote(<<"t", "i", "m", "e", "s", "t", "a", "m", "p">>)
    \o <<":">> \o Decimal(r.timestamp)
    \o <<",">> \o Quote(<<"s", "o", "u", "r", "c", "e">>) \o <<":">> \o Quote(r.source)
    \o <<"}">>

SourceLabel == <<"r", "u", "s", "t">>
HashResponse(hash, timestamp) ==
    [hash |-> hash, timestamp |-> timestamp, source |-> SourceLabel]

\* lines 68-83 of hash_handler, given the chain's final data and the
\* duration since the epoch read at line 70
hash_response(data, d) ==
    Response(StatusOk, {<<"Content-Type", "application/json">>},
             to_json(HashResponse(hex_encode(data), as_millis(d))))

health_handler == Response(StatusOk, {}, <<"O", "K">>)

not_found ==
    Response(StatusNotFound, {},
             <<"N", "o", "t", " ", "F", "o", "u", "n", "d">>)

\* variant: the match is on the whole uri, query included
handle_request_arm_uri(req) ==
    CASE req.uri.path = "/hash" /\ req.uri.query = "" -> "hash_handler"
      [] req.uri.path = "/health" /\ req.uri.query = "" -> "health_handler"
      [] OTHER -> "not_found"

\* the arm of the match in handle_request that a request takes
handle_request_arm(req) ==
    CASE uri_path(req) = "/hash" -> "hash_handler"
      [] uri_path(req) = "/health" -> "health_handler"
      [] OTHER -> "not_found"

(* ------------------------------- state -------------------------------- *)
VARIABLES
    mainPc,    \* where main is: "bind", "accept" (the loop), "returned"
    mainErr,   \* the error main returned: "none", "bind", "accept"
    stdout,    \* lines printed by println!
    stderr,    \* lines printed by eprintln!
    backlog,   \* connections established by clients, not yet accepted
    conn,      \* per connection: the socket and the task serving it
    sent,      \* number of requests clients have sent
    lastCall,  \* the hash_handler invocation that returned last
    event      \* what the last step did, if it wrote a response, returned
               \* from hash_handler or ended a task

vars == <<mainPc, mainErr, stdout, stderr, backlog, conn, sent,
          lastCall, event>>

\* an invocation of hash_handler that returned: the connection whose task
\* made it, the clock as line 53 and line 70 read it and its response
Call(c, t0, t1, response) ==
    [valid |-> TRUE, conn |-> c, t0 |-> t0, t1 |-> t1, response |-> response]
NoCall ==
    [valid |-> FALSE, conn |-> 0, t0 |-> 0, t1 |-> 0, response |-> NoResponse]

NoEvent == [kind |-> "none"]

\* the step wrote a response to the socket of connection c: the request that
\* the task of c was handling and, if the task called hash_handler for it,
\* the clock as that invocation read it
Write(c, req, t0, t1, response) ==
    [kind |-> "write", conn |-> c, req |-> req, t0 |-> t0, t1 |-> t1,
     response |-> response]

\* the step returned from hash_handler in the task of connection c (the
\* invocation is lastCall): prev is the invocation that had returned last
\* when this one started, if there is one and none has returned in between
Return(c, prev) == [kind |-> "return", conn |-> c, prev |-> prev]

\* the step ended the task of connection c: how is "closed" (serve_connection
\* returned Ok), "failed" (it returned Err) or "panicked"
TaskEnd(c, how) == [kind |-> "end", conn |-> c, how |-> how]

NewConn ==
    [ st       |-> "new",      \* new, queued, open, closed
      unread   |-> 0,          \* requests sent by the client, not yet read
      pc       |-> "read",     \* read, hashing, write
      req      |-> NoRequest,  \* the request being handled
      nread    |-> 0,          \* number of requests read
      data     |-> <<>>,       \* hash_handler: data after the loop
      digests  |-> 0,          \* hash_handler: digest computations made
      t0       |-> 0,          \* hash_handler: the clock as line 53 read it
      t1       |-> 0,          \* hash_handler: the clock as line 70 read it
      follows  |-> FALSE,      \* hash_handler: lastCall had returned when this
                               \* invocation started, and none has since
      result   |-> NoResult,   \* what handle_request returned for req
      nwritten |-> 0 ]         \* number of responses written

Init ==
    /\ mainPc = "bind"
    /\ mainErr = "none"
    /\ stdout = <<>>
    /\ stderr = <<>>
    /\ backlog = <<>>
    /\ conn = [c \in Conns |-> NewConn]
    /\ sent = 0
    /\ lastCall = NoCall
    /\ event = NoEvent

\* a connection whose socket is closed and whose task, if any, is gone
Ended == [NewConn EXCEPT !.st = "closed"]

Running == mainPc # "returned"
Serving(c) == Running /\ conn[c].st = "open"

\* the step writes no response, returns from no hash_handler, ends no task
Quiet == event' = NoEvent

(* ------------------------------- main --------------------------------- *)
\* TcpListener::bind(addr).await succeeds; println!
BindOk ==
    /\ mainPc = "bind"
    /\ mainPc' = "accept"
    /\ stdout' = Append(stdout, <<"Rust server starting on :", Port>>)
    /\ Quiet
    /\ UNCHANGED <<mainErr, stderr, backlog, conn, sent, lastCall>>

\* TcpListener::bind(addr).await? fails: main returns the error
BindFail ==
    /\ mainPc = "bind"
    /\ mainPc' = "returned"
    /\ mainErr' = "bind"
    /\ Quiet
    /\ UNCHANGED <<stdout, stderr, backlog, conn, sent, lastCall>>

\* variant: main awaits serve_connection itself instead of spawning a task,
\* and is back at accept only when the connection has ended
AtAccept_inline == mainPc = "accept" /\ \A c \in Conns : conn[c].st # "open"

\* main is at listener.accept().await: it waits for nothing but the listener
AtAccept == mainPc = "accept"

\* listener.accept().await succeeds; tokio::task::spawn; back to accept
Accept ==
    /\ AtAccept
    /\ backlog # <<>>
    /\ LET c == Head(backlog)
       IN conn' = [conn EXCEPT ![c].st = "open"]
    /\ backlog' = Tail(backlog)
    /\ Quiet
    /\ UNCHANGED <<mainPc, mainErr, stdout, stderr, sent, lastCall>>

\* listener.accept().await? fails: main returns the error, the runtime is
\* dropped and with it every task and socket
AcceptError ==
    /\ AtAccept
    /\ mainPc' = "returned"
    /\ mainErr' = "accept"
    /\ conn' = [c \in Conns |->
           IF conn[c].st \in {"queued", "open"} THEN Ended ELSE conn[c]]
    /\ backlog' = <<>>
    /\ lastCall' = NoCall
    /\ Quiet
    /\ UNCHANGED <<stdout, stderr, sent>>

(* ------------------------------ clients ------------------------------- *)
\* a client's TCP connection is established with the listening socket
Connect(c) ==
    /\ AtAccept
    /\ conn[c].st = "new"
    /\ \A d \in Conns : d < c => conn[d].st # "new"
    /\ conn' = [conn EXCEPT ![c].st = "queued"]
    /\ backlog' = Append(backlog, c)
    /\ Quiet
    /\ UNCHANGED <<mainPc, mainErr, stdout, stderr, sent, lastCall>>

\* a client sends a request, without waiting for earlier responses.  (What
\* a client sends before its connection is accepted is buffered, and reaches
\* the task as if it were sent after.  What the request says shows when the
\* task parses it: NextRequest.)
ClientSend(c) ==
    /\ Running
    /\ conn[c].st = "open"
    /\ sent < MaxRequests
    /\ sent' = sent + 1
    /\ conn' = [conn EXCEPT ![c].unread = @ + 1]
    /\ Quiet
    /\ UNCHANGED <<mainPc, mainErr, stdout, stderr, backlog, lastCall>>

(* ------------------------- connection tasks --------------------------- *)
\* variant: requests are read while the previous one is being handled
CanRead_pipelined(c) == conn[c].pc \in {"read", "hashing", "write"}

\* serve_connection may read the next request of its connection
CanRead(c) == conn[c].pc = "read"

\* serve_connection reads and parses the next request of connection c and
\* calls the service with it: when it may, what it reads when the client
\* sent method and uri, and what reading does to c
Readable(c) == Serving(c) /\ CanRead(c) /\ conn[c].unread > 0
NextRequest(c, method, uri) == Request(method, uri, conn[c].nread + 1)
AfterRead(c, req) ==
    [conn[c] EXCEPT !.req = req,
                    !.unread = @ - 1,
                    !.nread = @ + 1,
                    !.result = NoResult]

\* handle_request, arm "/health"
HandleHealth(c, method, uri) ==
    /\ Readable(c)
    /\ LET req == NextRequest(c, method, uri)
       IN /\ handle_request_arm(req) = "health_handler"
          /\ conn' = [conn EXCEPT ![c] = [AfterRead(c, req) EXCEPT
                                             !.result = Ok(health_handler),
                                             !.pc = "write"]]
    /\ Quiet
    /\ UNCHANGED <<mainPc, mainErr, stdout, stderr, backlog, sent, lastCall>>

\* handle_request, arm _
HandleNotFound(c, method, uri) ==
    /\ Readable(c)
    /\ LET req == NextRequest(c, method, uri)
       IN /\ handle_request_arm(req) = "not_found"
          /\ conn' = [conn EXCEPT ![c] = [AfterRead(c, req) EXCEPT
                                             !.result = Ok(not_found),
                                             !.pc = "write"]]
    /\ Quiet
    /\ UNCHANGED <<mainPc, mainErr, stdout, stderr, backlog, sent, lastCall>>

\* handle_request, arm "/hash": hash_handler, lines 53-66.  SystemTime::now()
\* returns now, unwrap succeeds and the chain is computed in the task's locals
HashBegin(c, method, uri, now) ==
    /\ Readable(c)
    /\ LET req == NextRequest(c, method, uri)
           d == duration_since_epoch(now)
       IN /\ handle_request_arm(req) = "hash_handler"
          /\ d.ok
          /\ LET timestamp == as_nanos(d)
                 chain == ChainTable[timestamp]
             IN conn' = [conn EXCEPT ![c] = [AfterRead(c, req) EXCEPT
                                                !.t0 = now,
                                                !.data = chain.data,
                                                !.digests = chain.digests,
                                                !.follows = lastCall.valid,
                                                !.pc = "hashing"]]
    /\ Quiet
    /\ UNCHANGED <<mainPc, mainErr, stdout, stderr, backlog, sent, lastCall>>

\* variant: 'data' is one buffer shared by all tasks, holding what the task
\* that hashed last left in it
shared_data(c) ==
    IF \E d \in Conns \ {c} : conn[d].pc = "hashing"
    THEN conn[CHOOSE d \in Conns \ {c} : conn[d].pc = "hashing"].data
    ELSE conn[c].data

\* variant: the response reports the time read at line 53
reused_timestamp(c, now) == duration_since_epoch(conn[c].t0)

\* the data that the response of connection c's invocation encodes: the
\* local 'data' of that invocation
response_data(c) == conn[c].data

\* the duration that the response of connection c's invocation reports, when
\* SystemTime::now() at line 70 returns now
response_time(c, now) == duration_since_epoch(now)

\* hash_handler, lines 68-84: SystemTime::now() returns now, unwrap succeeds,
\* the response is serialized and returned to handle_request
HashFinish(c, now) ==
    /\ Serving(c)
    /\ conn[c].pc = "hashing"
    /\ duration_since_epoch(now).ok
    /\ LET response == hash_response(response_data(c), response_time(c, now))
       IN /\ conn' = [d \in Conns |->
                 IF d = c
                 THEN [conn[c] EXCEPT !.result = Ok(response), !.t1 = now,
                                      !.data = <<>>, !.follows = FALSE,
                                      !.pc = "write"]
                 ELSE [conn[d] EXCEPT !.follows = FALSE]]
          /\ lastCall' = Call(c, conn[c].t0, now, response)
    /\ event' = Return(c, IF conn[c].follows THEN lastCall ELSE NoCall)
    /\ UNCHANGED <<mainPc, mainErr, stdout, stderr, backlog, sent>>

\* hash_handler, line 55 or 72: SystemTime::now() returns a time before the
\* epoch, duration_since returns Err and unwrap panics; the panic unwinds the
\* connection's task, which ends without a response and without the log line
\* of line 36
HashPanic(c, method, uri, now) ==
    /\ \/ Readable(c) /\ handle_request_arm(NextRequest(c, method, uri)) = "hash_handler"
       \/ Serving(c) /\ conn[c].pc = "hashing"
    /\ ~duration_since_epoch(now).ok
    /\ conn' = [conn EXCEPT ![c] = Ended]
    /\ event' = TaskEnd(c, "panicked")
    /\ UNCHANGED <<mainPc, mainErr, stdout, stderr, backlog, sent, lastCall>>

\* a task that has written its response: the request, the response and the
\* locals of the handler are dropped, the task waits for the next request
Idle(t) ==
    [NewConn EXCEPT !.st = t.st, !.unread = t.unread, !.nread = t.nread,
                    !.nwritten = t.nwritten + 1]

\* serve_connection writes the response of the request it read last
WriteResponse(c) ==
    /\ Serving(c)
    /\ conn[c].pc = "write"
    /\ conn[c].result.tag = "Ok"
    /\ event' = Write(c, conn[c].req, conn[c].t0, conn[c].t1, conn[c].result.val)
    /\ conn' = [conn EXCEPT ![c] = Idle(conn[c])]
    /\ UNCHANGED <<mainPc, mainErr, stdout, stderr, backlog, sent, lastCall>>

\* variant: the error of serve_connection is propagated out of main
main_exits_on_conn_error == "returned"

\* where a failed serve_connection leaves main: the error stays in the task
main_after_conn_error == mainPc

\* serve_connection returns Err (the client disconnected in mid-exchange or
\* sent bytes that are no HTTP request): eprintln!, the task ends
ConnError(c) ==
    /\ Serving(c)
    /\ conn' = [conn EXCEPT ![c] = Ended]
    /\ stderr' = Append(stderr, "Error serving connection")
    /\ mainPc' = main_after_conn_error
    /\ event' = TaskEnd(c, "failed")
    /\ UNCHANGED <<mainErr, stdout, backlog, sent, lastCall>>

\* the client closes an idle connection: serve_connection returns Ok
ConnClose(c) ==
    /\ Serving(c)
    /\ conn[c].pc = "read"
    /\ conn[c].unread = 0
    /\ conn' = [conn EXCEPT ![c] = Ended]
    /\ event' = TaskEnd(c, "closed")
    /\ UNCHANGED <<mainPc, mainErr, stdout, stderr, backlog, sent, lastCall>>

(* ---------------------------- specification --------------------------- *)
Next ==
    \/ BindOk
    \/ BindFail
    \/ Accept
    \/ AcceptError
    \/ \E c \in Conns : Connect(c)
    \/ \E c \in Conns : ClientSend(c)
    \/ \E c \in Conns, method \in Methods, uri \in Uris : HandleHealth(c, method, uri)
    \/ \E c \in Conns, method \in Methods, uri \in Uris : HandleNotFound(c, method, uri)
    \/ \E c \in Conns, method \in Methods, uri \in Uris, now \in ClockValues :
          HashBegin(c, method, uri, now)
    \/ \E c \in Conns, now \in ClockValues : HashFinish(c, now)
    \/ \E c \in Conns, method \in Methods, uri \in Uris, now \in ClockValues :
          HashPanic(c, method, uri, now)
    \/ \E c \in Conns : WriteResponse(c)
    \/ \E c \in Conns : ConnError(c)
    \/ \E c \in Conns : ConnClose(c)

Spec == Init /\ [][Next]_vars

\* the scheduler runs main whenever it can go on: a connection waiting in the
\* backlog while main is at accept is eventually taken by accept (or accept
\* fails).  Tasks and clients may stop at any point.
LiveSpec == Init /\ [][Next]_vars /\ WF_vars(Accept)

(* ------------------------- reading a JSON body ------------------------ *)
\* the positions of the double quotes of a text, in order
QuoteSeq(body) ==
    LET at == {i \in 1..Len(body) : body[i] = "\""}
    IN [k \in 1..Cardinality(at) |->
           CHOOSE i \in at : Cardinality({j \in at : j < i}) = k - 1]

\* the members of a JSON object whose values are strings without escapes or
\* unsigned integers: how many there are, and the text of the value of each
\* key (a string without its quotes, a number as written)
JsonObject(body) ==
    LET q == QuoteSeq(body)
        str(k) == SubSeq(body, q[2 * k - 1] + 1, q[2 * k] - 1)
        after(k) == q[2 * k] + 1
        keyNos == {k \in 1..(Len(q) \div 2) :
                      after(k) <= Len(body) /\ body[after(k)] = ":"}
        end(k) == CHOOSE i \in (after(k) + 1)..Len(body) :
                      /\ body[i] \in {",", "}"}
                      /\ \A j \in (after(k) + 1)..(i - 1) : body[j] \notin {",", "}"}
        value(k) == IF body[after(k) + 1] = "\"" THEN str(k + 1)
                    ELSE SubSeq(body, after(k) + 1, end(k) - 1)
    IN [ count |-> Cardinality(keyNos),
         fields |-> [key \in {str(k) : k \in keyNos} |->
                        value(CHOOSE k \in keyNos : str(k) = key)] ]

RECURSIVE ParseDecimal(_)
ParseDecimal(text) ==
    IF text = <<>> THEN 0
    ELSE 10 * ParseDecimal(SubSeq(text, 1, Len(text) - 1))
         + (CHOOSE v \in 0..9 : Digits[v + 1] = text[Len(text)])

HashKey == <<"h", "a", "s", "h">>
TimestampKey == <<"t", "i", "m", "e", "s", "t", "a", "m", "p">>
SourceKey == <<"s", "o", "u", "r", "c", "e">>
HashOf(response) == JsonObject(response.body).fields[HashKey]
TimestampOf(response) == ParseDecimal(JsonObject(response.body).fields[TimestampKey])

IsLowerHex(text) ==
    \A i \in 1..Len(text) : \E v \in 1..16 : HexDigits[v] = text[i]
IsDigits(text) ==
    text # <<>> /\ \A i \in 1..Len(text) : \E v \in 1..10 : Digits[v] = text[i]

\* status 200, Content-Type application/json, a JSON object with exactly the
\* keys hash, timestamp, source; hash 64 lowercase hexadecimal characters,
\* timestamp digits, source "rust"
WellFormed(response) ==
    LET body == response.body
        object == JsonObject(body)
    IN /\ response.status = 200
       /\ response.headers = {<<"Content-Type", "application/json">>}
       /\ Len(body) > 1 /\ body[1] = "{" /\ body[Len(body)] = "}"
       /\ object.count = 3
       /\ DOMAIN object.fields = {HashKey, TimestampKey, SourceKey}
       /\ Len(object.fields[HashKey]) = 64
       /\ IsLowerHex(object.fields[HashKey])
       /\ IsDigits(object.fields[TimestampKey])
       /\ object.fields[SourceKey] = <<"r", "u", "s", "t">>

(* ------------------------- the chain, restated ------------------------ *)
\* the digest of the digest of .. of bytes, k digests in all
RECURSIVE DigestPower(_, _)
DigestPower(k, bytes) ==
    IF k = 1 THEN Digest(bytes)
    ELSE LET h == k \div 2
             first == DigestPower(h, bytes)
         IN IF Len(first) = DigestLen THEN DigestPower(k - h, first) ELSE <<>>

\* the hash that an invocation reading now at line 53 is to return
HashRef ==
    [now \in {v \in ClockValues : v >= 0} |->
        hex_encode(DigestPower(100,
            as_bytes(<<"i", "n", "p", "u", "t", "-">> \o Decimal(now))))]

(* ------------------------------- claims ------------------------------- *)
\* what dispatch is to return for a request, by the path alone
Dispatched(req, result) ==
    /\ result.tag = "Ok"
    /\ CASE req.uri.path = "/health" ->
              /\ result.val.status = 200
              /\ result.val.body = <<"O", "K">>
         [] req.uri.path = "/hash" -> WellFormed(result.val)
         [] OTHER ->
              /\ result.val.status = 404
              /\ result.val.body = <<"N", "o", "t", " ", "F", "o", "u", "n", "d">>

\* C1: whatever the method and the query, a request whose path is /health
\* gets 200 "OK", one whose path is /hash gets the response that the hash
\* handler returned for it, and any other gets 404 "Not Found"; the hash
\* handler runs for no other path; handle_request returns Ok, never Err.
C1_DispatchByPath ==
    /\ \A c \in Conns :
          /\ conn[c].pc = "hashing" => conn[c].req.uri.path = "/hash"
          /\ conn[c].pc = "write" => Dispatched(conn[c].req, conn[c].result)
    /\ event.kind = "return" =>
          /\ conn[event.conn].req.uri.path = "/hash"
          /\ conn[event.conn].result = Ok(lastCall.response)
    /\ event.kind = "write" => Dispatched(event.req, Ok(event.response))

\* a POST to /health with a query is answered while a request to /healthz is
C1_Witness ==
    \E c, d \in Conns :
        /\ conn[c].pc = "write" /\ conn[d].pc = "write"
        /\ conn[c].req.method = "POST"
        /\ conn[c].req.uri = [path |-> "/health", query |-> "probe=1"]
        /\ conn[d].req.uri.path = "/healthz"

\* C2: every invocation of hash_handler, whatever the wall clock returns,
\* completes (no task ends in a panic) and returns 200 with Content-Type
\* application/json and a JSON body with exactly the keys hash, timestamp and
\* source, hash 64 lowercase hexadecimal characters and source "rust".
C2_NoErrorPath ==
    /\ event.kind = "end" => event.how # "panicked"
    /\ event.kind = "return" => WellFormed(lastCall.response)

\* C3: every invocation makes exactly 100 digest computations, the first of
\* "input-<nanoseconds>" and each further one of exactly the 32 bytes of the
\* one before; the hash returned is the hex encoding of the 100th digest.
C3_HundredChainedDigests ==
    /\ \A c \in Conns :
          conn[c].pc = "hashing" =>
              /\ conn[c].digests = 100
              /\ Len(conn[c].data) = 32
              /\ hex_encode(conn[c].data) = HashRef[conn[c].t0]
    /\ event.kind = "return" => HashOf(lastCall.response) = HashRef[lastCall.t0]

\* an invocation that read a time after the epoch has returned
C3_Witness == event.kind = "return" /\ lastCall.t0 > 0

\* the response that an invocation is to return when it read t0 at line 53
\* and t1 at line 70
OwnResponse(response, t0, t1) ==
    /\ WellFormed(response)
    /\ HashOf(response) = HashRef[t0]
    /\ TimestampOf(response) = t1 \div 1000000

\* C4: whatever the interleaving of the tasks, the response to a /hash
\* request has status 200 and a body computed from the invocation made for
\* that request alone (the clock as that invocation read it), and it is
\* written on the connection of the task that made the invocation.
C4_NoSharingBetweenTasks ==
    /\ \A c \in Conns :
          conn[c].pc = "write" /\ conn[c].req.uri.path = "/hash" =>
              OwnResponse(conn[c].result.val, conn[c].t0, conn[c].t1)
    /\ event.kind = "return" => lastCall.conn = event.conn
    /\ event.kind = "write" /\ event.req.uri.path = "/hash" =>
          OwnResponse(event.response, event.t0, event.t1)

\* an invocation returns while another one, which read another time, is
\* under way in another task
C4_Witness ==
    /\ event.kind = "return"
    /\ \E d \in Conns \ {event.conn} :
          conn[d].pc = "hashing" /\ conn[d].t0 # lastCall.t0

\* the step is the failure of serve_connection on connection c
Fails(c) ==
    /\ conn[c].st = "open" /\ conn'[c].st = "closed"
    /\ event'.kind = "end" /\ event'.conn = c /\ event'.how = "failed"

\* C5: when serve_connection fails on a connection, one line is logged, main
\* stays where it is (running, at accept), the backlog is untouched and every
\* other connection and its task are as they were.
C5_ConnErrorConfined ==
    [][\A c \in Conns :
          Fails(c) =>
              /\ stderr' = Append(stderr, "Error serving connection")
              /\ mainPc = "accept" /\ mainPc' = "accept"
              /\ backlog' = backlog
              /\ \A d \in Conns \ {c} : conn'[d] = conn[d]]_vars

\* serve_connection has failed while main is at accept and the task of
\* another connection holds a response to write
C5_Witness ==
    /\ event.kind = "end" /\ event.how = "failed"
    /\ mainPc = "accept"
    /\ \E d \in Conns : conn[d].st = "open" /\ conn[d].pc = "write"

\* C6: main returns only because bind failed; once bind has succeeded no
\* error of accept or of a task makes main return.
C6_OnlyBindTerminates == mainPc = "returned" => mainErr = "bind"

\* C7: two sequential calls to /hash return different hashes.
C7_SequentialHashesDiffer ==
    event.kind = "return" /\ event.prev.valid =>
        HashOf(event.prev.response) # HashOf(lastCall.response)

\* C7, amended: two sequential calls return the same hash when their
\* invocations read the same nanoseconds at line 53, and different hashes
\* when they read different ones.
C7_HashesDifferWithNanos ==
    event.kind = "return" /\ event.prev.valid =>
        (HashOf(event.prev.response) = HashOf(lastCall.response)
            <=> event.prev.t0 = lastCall.t0)

\* a call has returned whose invocation read the same nanoseconds as the
\* call before it
C7_Witness ==
    /\ event.kind = "return" /\ event.prev.valid
    /\ event.prev.t0 = lastCall.t0

\* C8: if call A returned before call B started, timestamp(A) <= timestamp(B).
C8_TimestampsNonDecreasing ==
    event.kind = "return" /\ event.prev.valid =>
        TimestampOf(event.prev.response) <= TimestampOf(lastCall.response)

\* C8, amended: the timestamp is the milliseconds of the wall clock as line
\* 70 read it, after the chain; for sequential calls A, B it is non-decreasing
\* whenever the clock read by B at line 70 is not before the clock read by A.
C8_TimestampIsClockAtConstruction ==
    event.kind = "return" =>
        /\ TimestampOf(lastCall.response) = lastCall.t1 \div 1000000
        /\ event.prev.valid /\ event.prev.t1 <= lastCall.t1 =>
              TimestampOf(event.prev.response) <= TimestampOf(lastCall.response)

\* call B has returned after call A, with a later clock and a later timestamp,
\* and read its timestamp later than its seed
C8_Witness ==
    /\ event.kind = "return" /\ event.prev.valid
    /\ lastCall.t0 < lastCall.t1
    /\ TimestampOf(event.prev.response) < TimestampOf(lastCall.response)

\* C9: on a connection the task reads request k+1 only when the response to
\* request k is written: at most one request is read and unanswered, it is
\* the last one read, and the k-th response written answers the k-th request.
C9_OneRequestAtATime ==
    /\ \A c \in Conns :
          /\ conn[c].pc = "read" => conn[c].nread = conn[c].nwritten
          /\ conn[c].pc # "read" =>
                /\ conn[c].nread = conn[c].nwritten + 1
                /\ conn[c].req.seq = conn[c].nread
    /\ event.kind = "write" =>
          /\ event.req.seq = conn[event.conn].nwritten
          /\ conn[event.conn].pc = "read"

\* the second response of a connection is written
C9_Witness ==
    /\ event.kind = "write" /\ event.req.seq = 2

\* C10: as long as accept does not fail, a connection waiting in the backlog
\* is eventually accepted and given its task, whatever the tasks of the
\* connections accepted before it do.
C10_PendingEventuallyAccepted ==
    \A c \in Conns :
        (conn[c].st = "queued") ~> (conn[c].st = "open" \/ mainErr = "accept")

\* a connection waits in the backlog while the task of another is inside a
\* handler
C10_Witness ==
    \E c, d \in Conns :
        /\ conn[c].st = "queued"
        /\ conn[d].st = "open" /\ conn[d].pc = "hashing"

====
